---- MODULE Spec2Model ----
(***************************************************************************)
(* Model of patroni.config.Config: the effective configuration built from  *)
(* the defaults, the dynamic (DCS) configuration and the local             *)
(* configuration, the modify-index guard of set_dynamic_configuration, the *)
(* local reload and the on-disk cache of the dynamic configuration.        *)
(*                                                                         *)
(* Python values are encoded uniformly so that any two of them can be      *)
(* compared: a dict is a function from strings (its keys) to values, an    *)
(* int n is [int |-> n], a str s is [str |-> s], None is [none |-> TRUE].  *)
(* A call that raises evaluates to [exc |-> <exception name>].             *)
(***************************************************************************)
EXTENDS Integers, FiniteSets, Sequences, TLC

\* ------------------------------------------------------------------ bounds
\* Versioned snapshots carry a modify index in -1 .. MaxIndex.
MaxIndex == 0
\* At most MaxTmpFiles temporary files are left behind by failed removals.
MaxTmpFiles == 1

\* ------------------------------------------------------------ Python values
I(n) == [int |-> n]
S(s) == [str |-> s]
B(b) == [bool |-> b]
None == [none |-> TRUE]
Exc(e) == [exc |-> e]
\* dcs.ClusterConfig: a dynamic configuration with the modify index of its
\* key in the DCS.
ClusterConfig(modify_index, data) ==
    [cluster_config |-> [modify_index |-> modify_index, data |-> data]]
EmptyDict == [k \in {} |-> None]

NonDictTags == {"int", "str", "bool", "none", "exc", "cluster_config"}

IsInt(v) == DOMAIN v = {"int"}
IsBool(v) == DOMAIN v = {"bool"}
IsNone(v) == DOMAIN v = {"none"}
IsStr(v) == DOMAIN v = {"str"}
IsExc(v) == DOMAIN v = {"exc"}
IsClusterConfig(v) == DOMAIN v = {"cluster_config"}
IsDict(v) == DOMAIN v \cap NonDictTags = {}

\* Python truthiness of a value (`value or {}`, `if value`).
Truthy(v) ==
    CASE IsDict(v) -> DOMAIN v # {}
      [] IsInt(v)  -> v.int # 0
      [] IsStr(v)  -> v.str # ""
      [] IsBool(v) -> v.bool
      [] OTHER     -> FALSE

\* key in d, for a dict d
Has(d, k) == k \in DOMAIN d

\* d.get(k, default)
Get(d, k, default) == IF k \in DOMAIN d THEN d[k] ELSE default

\* dict.update: the entries of g overwrite those of f
DictUpdate(f, g) ==
    [k \in DOMAIN f \cup DOMAIN g |-> IF k \in DOMAIN g THEN g[k] ELSE f[k]]

\* d[k] = v
DictSet(d, k, v) ==
    [j \in DOMAIN d \cup {k} |-> IF j = k THEN v ELSE d[j]]

\* The element of a singleton.  Only({f(x) : x \in {e}}) is f of the value of
\* e, a local variable assigned once: e is evaluated once, whatever the
\* number of times f uses x.
Only(singleton) == CHOOSE x \in singleton : TRUE

\* The decimal strings of the model and the integers int() parses them to.
DecimalStrings ==
    [s \in {"3", "12", "20"} |->
        CASE s = "3" -> 3 [] s = "12" -> 12 [] s = "20" -> 20]

\* int(value) raises TypeError for a dict or None, ValueError for a string
\* that is not a decimal literal.
int_raises(v) ==
    ~ (IsInt(v) \/ IsBool(v) \/ (IsStr(v) /\ v.str \in DOMAIN DecimalStrings))

int(v) ==
    CASE IsInt(v)  -> v.int
      [] IsBool(v) -> IF v.bool THEN 1 ELSE 0
      [] OTHER     -> DecimalStrings[v.str]

\* str(value) as used by str.format, for the scalars of the model.
str(v) ==
    CASE IsStr(v)  -> v.str
      [] IsInt(v)  -> ToString(v.int)
      [] IsBool(v) -> IF v.bool THEN "True" ELSE "False"
      [] OTHER     -> "None"

\* ------------------------------------------------------------ the defaults
\* Postgresql.CMDLINE_OPTIONS: the whitelist of parameters with safe defaults.
CMDLINE_OPTIONS ==
    [ wal_level             |-> S("hot_standby"),
      hot_standby           |-> S("on"),
      max_connections       |-> I(100),
      max_wal_senders       |-> I(10),
      wal_keep_segments     |-> I(8),
      max_replication_slots |-> I(10),
      wal_log_hints         |-> S("on") ]

CACHE_FILENAME == "patroni.dynamic.json"

DEFAULT_CONFIG ==
    [ ttl                     |-> I(30),
      loop_wait               |-> I(10),
      retry_timeout           |-> I(10),
      maximum_lag_on_failover |-> I(1048576),
      postgresql              |-> [parameters |-> CMDLINE_OPTIONS] ]

\* ------------------------------------------------- the parameter sanitizer
CapacityParameters ==
    {"max_replication_slots", "max_wal_senders", "wal_keep_segments"}

\* The condition of the `if` in _process_postgresql_parameters; int(value)
\* is evaluated only where Python's short-circuit evaluation reaches it.
ParameterNeedsInt(name, is_local) ==
    /\ ~ (is_local /\ name \notin DOMAIN CMDLINE_OPTIONS)
    /\ name \in CapacityParameters

\* Variant of ParameterKept: every local parameter is trusted, also one of
\* the whitelist.
ParameterKept_local_trusted(name, value, is_local) ==
    \/ is_local
    \/ ~ \/ name = "wal_level" /\ value \notin {S("hot_standby"), S("logical")}
         \/ /\ name \in CapacityParameters
            /\ int(value) < CMDLINE_OPTIONS[name].int
         \/ name \in {"hot_standby", "wal_log_hints"}

\* Variant of ParameterKept: hot_standby and wal_log_hints are treated like
\* any other parameter.
ParameterKept_hot_standby_allowed(name, value, is_local) ==
    \/ is_local /\ name \notin DOMAIN CMDLINE_OPTIONS
    \/ ~ \/ name = "wal_level" /\ value \notin {S("hot_standby"), S("logical")}
         \/ /\ name \in CapacityParameters
            /\ int(value) < CMDLINE_OPTIONS[name].int

ParameterKept(name, value, is_local) ==
    \/ is_local /\ name \notin DOMAIN CMDLINE_OPTIONS
    \/ ~ \/ name = "wal_level" /\ value \notin {S("hot_standby"), S("logical")}
         \/ /\ name \in CapacityParameters
            /\ int(value) < CMDLINE_OPTIONS[name].int
         \/ name \in {"hot_standby", "wal_log_hints"}

_process_postgresql_parameters(parameters, is_local) ==
    LET params == IF Truthy(parameters) THEN parameters ELSE EmptyDict IN
    IF ~ IsDict(params) THEN Exc("AttributeError")
    ELSE IF \E name \in DOMAIN params :
               ParameterNeedsInt(name, is_local) /\ int_raises(params[name])
         THEN Exc("ValueError")
    ELSE LET kept == {name \in DOMAIN params :
                         ParameterKept(name, params[name], is_local)}
         IN  [name \in kept |-> params[name]]

\* -------------------------------------------------------------- the merger
DynamicForbidden ==
    {"connect_address", "listen", "data_dir", "pgpass", "authentication"}

\* `(value or {})`
OrEmpty(value) == IF Truthy(value) THEN value ELSE EmptyDict

\* The postgresql section of the result of _safe_copy_dynamic_configuration,
\* for a dict pg (the dynamic postgresql section) and its sanitized
\* parameters.
SafeCopyPostgresql(pg, parameters) ==
    LET copied == {name \in DOMAIN pg : name \notin DynamicForbidden \cup {"parameters"}}
        base   == [parameters |-> DictUpdate(CMDLINE_OPTIONS, parameters)]
    IN  DictUpdate(base, [name \in copied |-> pg[name]])

_safe_copy_dynamic_configuration(dynamic_configuration) ==
    IF ~ IsDict(dynamic_configuration) THEN Exc("AttributeError")
    ELSE
    LET d  == dynamic_configuration
        pg == IF Has(d, "postgresql") THEN OrEmpty(d["postgresql"]) ELSE EmptyDict
    IN
    IF ~ IsDict(pg) THEN Exc("AttributeError")
    ELSE
    LET parameters == IF Has(pg, "parameters")
                      THEN _process_postgresql_parameters(pg["parameters"], FALSE)
                      ELSE EmptyDict
        overridden == (DOMAIN d \cap DOMAIN DEFAULT_CONFIG) \ {"postgresql"}
    IN
    IF IsExc(parameters) THEN parameters
    ELSE IF \E name \in overridden : int_raises(d[name]) THEN Exc("ValueError")
    ELSE [name \in DOMAIN DEFAULT_CONFIG |->
             IF name = "postgresql" THEN SafeCopyPostgresql(pg, parameters)
             ELSE IF name \in overridden THEN I(int(d[name]))
             ELSE DEFAULT_CONFIG[name]]

\* Variant of ApplyLocal: a local top-level key replaces the one present.
ApplyLocal_overrides(config, local_configuration) ==
    IF ~ IsDict(local_configuration) THEN Exc("AttributeError")
    ELSE
    LET l  == local_configuration
        pg == IF Has(l, "postgresql") THEN OrEmpty(l["postgresql"]) ELSE EmptyDict
    IN
    IF ~ IsDict(pg) THEN Exc("AttributeError")
    ELSE
    LET parameters == IF Has(pg, "parameters")
                      THEN _process_postgresql_parameters(pg["parameters"], TRUE)
                      ELSE EmptyDict
        added  == {name \in DOMAIN l : name # "postgresql"}
        copied == DOMAIN pg \ {"parameters"}
    IN
    IF IsExc(parameters) THEN parameters
    ELSE
    LET pg_config == DictUpdate(
                        DictSet(config["postgresql"], "parameters",
                                DictUpdate(config["postgresql"]["parameters"], parameters)),
                        [name \in copied |-> pg[name]])
    IN  DictSet(DictUpdate(config, [name \in added |-> OrEmpty(l[name])]),
                "postgresql", pg_config)

\* Lines 245-253: the local configuration layered over config.
ApplyLocal(config, local_configuration) ==
    IF ~ IsDict(local_configuration) THEN Exc("AttributeError")
    ELSE
    LET l  == local_configuration
        pg == IF Has(l, "postgresql") THEN OrEmpty(l["postgresql"]) ELSE EmptyDict
    IN
    IF ~ IsDict(pg) THEN Exc("AttributeError")
    ELSE
    LET parameters == IF Has(pg, "parameters")
                      THEN _process_postgresql_parameters(pg["parameters"], TRUE)
                      ELSE EmptyDict
        added  == {name \in DOMAIN l : name # "postgresql" /\ name \notin DOMAIN config}
        copied == DOMAIN pg \ {"parameters"}
    IN
    IF IsExc(parameters) THEN parameters
    ELSE
    LET pg_config == DictUpdate(
                        DictSet(config["postgresql"], "parameters",
                                DictUpdate(config["postgresql"]["parameters"], parameters)),
                        [name \in copied |-> pg[name]])
    IN  DictSet(DictUpdate(config, [name \in added |-> OrEmpty(l[name])]),
                "postgresql", pg_config)

\* Lines 255-258: restapi.auth synthesized from restapi.authentication.
NormalizeRestapi(config) ==
    IF ~ Has(config, "restapi") THEN Exc("KeyError")
    ELSE
    LET restapi == config["restapi"] IN
    IF ~ IsDict(restapi) THEN
        IF IsStr(restapi) THEN config ELSE Exc("TypeError")
    ELSE IF ~ Has(restapi, "authentication") THEN config
    ELSE
    LET auth == restapi["authentication"] IN
    IF ~ IsDict(auth) THEN Exc("TypeError")
    ELSE IF ~ (Has(auth, "username") /\ Has(auth, "password")) THEN Exc("KeyError")
    ELSE DictSet(config, "restapi",
                 DictSet(restapi, "auth",
                         S(str(auth["username"]) \o ":" \o str(auth["password"]))))

\* Lines 260-268: special treatment for the old configuration format.
NormalizeAuthentication(pg_config) ==
    LET legacy == {u \in {"replication", "superuser"} : Has(pg_config, u)}
        pg1 == IF ~ Has(pg_config, "authentication")
               THEN DictUpdate(pg_config,
                        [use_pg_rewind  |-> B(Has(pg_config, "pg_rewind")),
                         authentication |-> [u \in legacy |-> pg_config[u]]])
               ELSE pg_config
        auth == pg1["authentication"]
    IN
    IF IsDict(auth) THEN
        IF ~ Has(auth, "superuser") /\ Has(pg1, "pg_rewind")
        THEN DictSet(pg1, "authentication",
                     DictSet(auth, "superuser", pg1["pg_rewind"]))
        ELSE pg1
    ELSE IF IsStr(auth) /\ ~ Has(pg1, "pg_rewind") THEN pg1
    ELSE Exc("TypeError")

\* Lines 270-274: name promoted to the top level, then the top-level name,
\* scope, retry_timeout and maximum_lag_on_failover copied into postgresql.
NormalizeNames(config, pg_config) ==
    LET config1 == IF ~ Has(config, "name") /\ Has(pg_config, "name")
                   THEN DictSet(config, "name", pg_config["name"])
                   ELSE config
        down    == {p \in {"name", "scope", "retry_timeout", "maximum_lag_on_failover"} :
                       Has(config1, p)}
    IN  DictSet(config1, "postgresql",
                DictUpdate(pg_config, [p \in down |-> config1[p]]))

_build_effective_configuration(dynamic_configuration, local_configuration) ==
    Only({ IF IsExc(config0) THEN config0 ELSE
    Only({ IF IsExc(config1) THEN config1 ELSE
    Only({ IF IsExc(config2) THEN config2 ELSE
    Only({ IF IsExc(pg_config) THEN pg_config
           ELSE NormalizeNames(config2, pg_config)
        : pg_config \in {NormalizeAuthentication(config2["postgresql"])} })
        : config2 \in {NormalizeRestapi(config1)} })
        : config1 \in {ApplyLocal(config0, local_configuration)} })
        : config0 \in {_safe_copy_dynamic_configuration(dynamic_configuration)} })

\* utils.deep_compare: structural equality of two values.
deep_compare(obj1, obj2) == obj1 = obj2

\* ------------------------------------------------------------- json, paths
\* json.dump: the document written for a value.
RECURSIVE json_dump(_)
json_dump(v) ==
    CASE IsInt(v)  -> [number |-> v.int]
      [] IsStr(v)  -> [string |-> v.str]
      [] IsBool(v) -> [literal |-> IF v.bool THEN "true" ELSE "false"]
      [] IsNone(v) -> [literal |-> "null"]
      [] OTHER     -> [object |-> [k \in DOMAIN v |-> json_dump(v[k])]]

\* A file whose text is not a JSON document: an interrupted write, garbage.
Truncated == [truncated |-> TRUE]

\* json.load: the value read from a document, ValueError for a text that is
\* not one.
RECURSIVE json_load(_)
json_load(doc) ==
    CASE DOMAIN doc = {"number"}  -> I(doc.number)
      [] DOMAIN doc = {"string"}  -> S(doc.string)
      [] DOMAIN doc = {"literal"} ->
            IF doc.literal = "null" THEN None ELSE B(doc.literal = "true")
      [] DOMAIN doc = {"object"}  ->
            [k \in DOMAIN doc.object |-> json_load(doc.object[k])]
      [] OTHER -> Exc("ValueError")

\* os.path.join(directory, name), for a directory without a trailing slash
path_join(directory, name) == directory \o "/" \o name

\* ------------------------------------------------------------ the instance
\* self is the record of the fields of a Config instance; fs maps the path
\* of each file of the data directory to the document it holds.

\* Variant of set_dynamic_configuration: the candidate is stored before the
\* merge is attempted.
set_dynamic_configuration_store_first(self, configuration) ==
    IF IsClusterConfig(configuration)
       /\ self._modify_index = configuration.cluster_config.modify_index
    THEN [self |-> self, ret |-> B(FALSE), logged |-> FALSE]
    ELSE
    LET self1 == IF IsClusterConfig(configuration)
                 THEN [self EXCEPT !._modify_index =
                                       configuration.cluster_config.modify_index]
                 ELSE self
        data  == IF IsClusterConfig(configuration)
                 THEN configuration.cluster_config.data
                 ELSE configuration
    IN
    IF deep_compare(self1._dynamic_configuration, data)
    THEN [self |-> self1, ret |-> None, logged |-> FALSE]
    ELSE
    Only({
        IF IsExc(effective)
        THEN [self |-> [self1 EXCEPT !._dynamic_configuration = data],
              ret |-> None, logged |-> TRUE]
        ELSE [self |-> [self1 EXCEPT !.effective_configuration = effective,
                                     !._dynamic_configuration = data,
                                     !._cache_needs_saving = TRUE],
              ret  |-> B(TRUE), logged |-> FALSE]
        : effective \in {_build_effective_configuration(
                             data, self1._local_configuration)} })

\* Variant of set_dynamic_configuration: a snapshot is skipped unless its index
\* is greater than the stored one.
set_dynamic_configuration_monotonic(self, configuration) ==
    IF IsClusterConfig(configuration)
       /\ self._modify_index >= configuration.cluster_config.modify_index
    THEN [self |-> self, ret |-> B(FALSE), logged |-> FALSE]
    ELSE
    LET self1 == IF IsClusterConfig(configuration)
                 THEN [self EXCEPT !._modify_index =
                                       configuration.cluster_config.modify_index]
                 ELSE self
        data  == IF IsClusterConfig(configuration)
                 THEN configuration.cluster_config.data
                 ELSE configuration
    IN
    IF deep_compare(self1._dynamic_configuration, data)
    THEN [self |-> self1, ret |-> None, logged |-> FALSE]
    ELSE
    Only({
        IF IsExc(effective)
        THEN [self |-> self1, ret |-> None, logged |-> TRUE]
        ELSE [self |-> [self1 EXCEPT !.effective_configuration = effective,
                                     !._dynamic_configuration = data,
                                     !._cache_needs_saving = TRUE],
              ret  |-> B(TRUE), logged |-> FALSE]
        : effective \in {_build_effective_configuration(
                             data, self1._local_configuration)} })

\* Variant of set_dynamic_configuration: the modify index is not compared.
set_dynamic_configuration_no_guard(self, configuration) ==
    IF FALSE
    THEN [self |-> self, ret |-> B(FALSE), logged |-> FALSE]
    ELSE
    LET self1 == IF IsClusterConfig(configuration)
                 THEN [self EXCEPT !._modify_index =
                                       configuration.cluster_config.modify_index]
                 ELSE self
        data  == IF IsClusterConfig(configuration)
                 THEN configuration.cluster_config.data
                 ELSE configuration
    IN
    IF deep_compare(self1._dynamic_configuration, data)
    THEN [self |-> self1, ret |-> None, logged |-> FALSE]
    ELSE
    Only({
        IF IsExc(effective)
        THEN [self |-> self1, ret |-> None, logged |-> TRUE]
        ELSE [self |-> [self1 EXCEPT !.effective_configuration = effective,
                                     !._dynamic_configuration = data,
                                     !._cache_needs_saving = TRUE],
              ret  |-> B(TRUE), logged |-> FALSE]
        : effective \in {_build_effective_configuration(
                             data, self1._local_configuration)} })

\* Variant of set_dynamic_configuration: the cache is marked for saving also
\* when the content is the stored one.
set_dynamic_configuration_always_dirty(self, configuration) ==
    IF IsClusterConfig(configuration)
       /\ self._modify_index = configuration.cluster_config.modify_index
    THEN [self |-> self, ret |-> B(FALSE), logged |-> FALSE]
    ELSE
    LET self1 == IF IsClusterConfig(configuration)
                 THEN [self EXCEPT !._modify_index =
                                       configuration.cluster_config.modify_index]
                 ELSE self
        data  == IF IsClusterConfig(configuration)
                 THEN configuration.cluster_config.data
                 ELSE configuration
    IN
    IF deep_compare(self1._dynamic_configuration, data)
    THEN [self |-> [self1 EXCEPT !._cache_needs_saving = TRUE],
          ret |-> None, logged |-> FALSE]
    ELSE
    Only({
        IF IsExc(effective)
        THEN [self |-> self1, ret |-> None, logged |-> TRUE]
        ELSE [self |-> [self1 EXCEPT !.effective_configuration = effective,
                                     !._dynamic_configuration = data,
                                     !._cache_needs_saving = TRUE],
              ret  |-> B(TRUE), logged |-> FALSE]
        : effective \in {_build_effective_configuration(
                             data, self1._local_configuration)} })

\* Config.set_dynamic_configuration; the result is the instance after the
\* call, the returned value and whether an exception was logged.
set_dynamic_configuration(self, configuration) ==
    IF IsClusterConfig(configuration)
       /\ self._modify_index = configuration.cluster_config.modify_index
    THEN [self |-> self, ret |-> B(FALSE), logged |-> FALSE]
    ELSE
    LET self1 == IF IsClusterConfig(configuration)
                 THEN [self EXCEPT !._modify_index =
                                       configuration.cluster_config.modify_index]
                 ELSE self
        data  == IF IsClusterConfig(configuration)
                 THEN configuration.cluster_config.data
                 ELSE configuration
    IN
    IF deep_compare(self1._dynamic_configuration, data)
    THEN [self |-> self1, ret |-> None, logged |-> FALSE]
    ELSE
    Only({
        IF IsExc(effective)
        THEN [self |-> self1, ret |-> None, logged |-> TRUE]
        ELSE [self |-> [self1 EXCEPT !.effective_configuration = effective,
                                     !._dynamic_configuration = data,
                                     !._cache_needs_saving = TRUE],
              ret  |-> B(TRUE), logged |-> FALSE]
        : effective \in {_build_effective_configuration(
                             data, self1._local_configuration)} })

\* Variant of reload_local_configuration: a dry run stores the
\* candidate as well.
reload_local_configuration_dry_run_stores(self, dry_run, loaded) ==
    IF ~ Truthy(self._config_file)
    THEN [self |-> self, ret |-> None, logged |-> FALSE]
    ELSE
    LET failed(e) == [self |-> self, ret |-> IF dry_run THEN e ELSE None,
                      logged |-> TRUE]
    IN
    IF IsExc(loaded) THEN failed(loaded)
    ELSE IF deep_compare(self._local_configuration, loaded)
    THEN [self |-> self, ret |-> None, logged |-> FALSE]
    ELSE
    Only({
        IF IsExc(new_configuration) THEN failed(new_configuration)
        ELSE IF dry_run
        THEN [self |-> [self EXCEPT !._local_configuration = loaded,
                                    !.effective_configuration = new_configuration],
              ret  |-> B(~ deep_compare(new_configuration, self.effective_configuration)),
              logged |-> FALSE]
        ELSE [self |-> [self EXCEPT !._local_configuration = loaded,
                                    !.effective_configuration = new_configuration],
              ret  |-> B(TRUE), logged |-> FALSE]
        : new_configuration \in {_build_effective_configuration(
                                     self._dynamic_configuration, loaded)} })

\* Variant of reload_local_configuration: the candidate is stored
\* before the merge is attempted.
reload_local_configuration_store_first(self, dry_run, loaded) ==
    IF ~ Truthy(self._config_file)
    THEN [self |-> self, ret |-> None, logged |-> FALSE]
    ELSE
    LET failed(e) == [self |-> self, ret |-> IF dry_run THEN e ELSE None,
                      logged |-> TRUE]
    IN
    IF IsExc(loaded) THEN failed(loaded)
    ELSE IF deep_compare(self._local_configuration, loaded)
    THEN [self |-> self, ret |-> None, logged |-> FALSE]
    ELSE
    Only({
        IF IsExc(new_configuration)
        THEN [failed(new_configuration) EXCEPT
                 !.self = [self EXCEPT !._local_configuration = loaded]]
        ELSE IF dry_run
        THEN [self |-> self,
              ret  |-> B(~ deep_compare(new_configuration, self.effective_configuration)),
              logged |-> FALSE]
        ELSE [self |-> [self EXCEPT !._local_configuration = loaded,
                                    !.effective_configuration = new_configuration],
              ret  |-> B(TRUE), logged |-> FALSE]
        : new_configuration \in {_build_effective_configuration(
                                     self._dynamic_configuration, loaded)} })

\* Config.reload_local_configuration; loaded is what _load_config_file
\* returns or raises at this call.  A ret that is an exception is the one
\* re-raised to the caller.
reload_local_configuration(self, dry_run, loaded) ==
    IF ~ Truthy(self._config_file)
    THEN [self |-> self, ret |-> None, logged |-> FALSE]
    ELSE
    LET failed(e) == [self |-> self, ret |-> IF dry_run THEN e ELSE None,
                      logged |-> TRUE]
    IN
    IF IsExc(loaded) THEN failed(loaded)
    ELSE IF deep_compare(self._local_configuration, loaded)
    THEN [self |-> self, ret |-> None, logged |-> FALSE]
    ELSE
    Only({
        IF IsExc(new_configuration) THEN failed(new_configuration)
        ELSE IF dry_run
        THEN [self |-> self,
              ret  |-> B(~ deep_compare(new_configuration, self.effective_configuration)),
              logged |-> FALSE]
        ELSE [self |-> [self EXCEPT !._local_configuration = loaded,
                                    !.effective_configuration = new_configuration],
              ret  |-> B(TRUE), logged |-> FALSE]
        : new_configuration \in {_build_effective_configuration(
                                     self._dynamic_configuration, loaded)} })

\* The temporary files of directory that exist in fs.
TmpFiles(fs, directory) ==
    {path \in DOMAIN fs :
        \E n \in 0 .. Cardinality(DOMAIN fs) :
            path = path_join(directory, CACHE_FILENAME \o "." \o ToString(n))}

\* tempfile.mkstemp(prefix, dir): the path of a file that does not exist yet.
mkstemp(fs, prefix, directory) ==
    LET name(n) == path_join(directory, prefix \o "." \o ToString(n))
        n == CHOOSE i \in 0 .. Cardinality(DOMAIN fs) :
                 /\ name(i) \notin DOMAIN fs
                 /\ \A j \in 0 .. i - 1 : name(j) \in DOMAIN fs
    IN  name(n)

\* os.remove(path)
remove(fs, path) == [q \in DOMAIN fs \ {path} |-> fs[q]]

\* The steps of save_cache at which an I/O call may raise.
SaveFailures == {"mkstemp", "dump", "rename"}

\* Variant of save_cache: the flag is cleared before the rename is
\* attempted.
save_cache_cleared_early(self, fs, failure, remove_ok) ==
    LET nothing == [self |-> self, fs |-> fs, ret |-> None, created |-> 0,
                    renamed |-> FALSE, logged |-> FALSE]
    IN
    IF ~ self._cache_needs_saving THEN nothing
    ELSE IF failure = "mkstemp" THEN [nothing EXCEPT !.logged = TRUE]
    ELSE
    LET tmpfile  == mkstemp(fs, CACHE_FILENAME, self._data_dir)
        document == json_dump(self._dynamic_configuration)
        written  == IF failure = "dump" THEN Truncated ELSE document
        fs1      == DictSet(fs, tmpfile, written)
    IN
    IF failure = "none"
    THEN [self |-> [self EXCEPT !._cache_needs_saving = FALSE],
          fs   |-> DictSet(remove(fs1, tmpfile), self._cache_file, fs1[tmpfile]),
          ret  |-> None, created |-> 1, renamed |-> TRUE, logged |-> FALSE]
    ELSE [self |-> [self EXCEPT !._cache_needs_saving = (failure # "rename")],
          fs   |-> IF remove_ok THEN remove(fs1, tmpfile) ELSE fs1,
          ret  |-> None, created |-> 1, renamed |-> FALSE, logged |-> TRUE]

\* Variant of save_cache: the flag is not tested.
save_cache_unconditional(self, fs, failure, remove_ok) ==
    LET nothing == [self |-> self, fs |-> fs, ret |-> None, created |-> 0,
                    renamed |-> FALSE, logged |-> FALSE]
    IN
    IF FALSE THEN nothing
    ELSE IF failure = "mkstemp" THEN [nothing EXCEPT !.logged = TRUE]
    ELSE
    LET tmpfile  == mkstemp(fs, CACHE_FILENAME, self._data_dir)
        document == json_dump(self._dynamic_configuration)
        written  == IF failure = "dump" THEN Truncated ELSE document
        fs1      == DictSet(fs, tmpfile, written)
    IN
    IF failure = "none"
    THEN [self |-> [self EXCEPT !._cache_needs_saving = FALSE],
          fs   |-> DictSet(remove(fs1, tmpfile), self._cache_file, fs1[tmpfile]),
          ret  |-> None, created |-> 1, renamed |-> TRUE, logged |-> FALSE]
    ELSE [self |-> self,
          fs   |-> IF remove_ok THEN remove(fs1, tmpfile) ELSE fs1,
          ret  |-> None, created |-> 1, renamed |-> FALSE, logged |-> TRUE]

\* Variant of save_cache: the temporary file is not removed after a
\* failure.
save_cache_no_cleanup(self, fs, failure, remove_ok) ==
    LET nothing == [self |-> self, fs |-> fs, ret |-> None, created |-> 0,
                    renamed |-> FALSE, logged |-> FALSE]
    IN
    IF ~ self._cache_needs_saving THEN nothing
    ELSE IF failure = "mkstemp" THEN [nothing EXCEPT !.logged = TRUE]
    ELSE
    LET tmpfile  == mkstemp(fs, CACHE_FILENAME, self._data_dir)
        document == json_dump(self._dynamic_configuration)
        written  == IF failure = "dump" THEN Truncated ELSE document
        fs1      == DictSet(fs, tmpfile, written)
    IN
    IF failure = "none"
    THEN [self |-> [self EXCEPT !._cache_needs_saving = FALSE],
          fs   |-> DictSet(remove(fs1, tmpfile), self._cache_file, fs1[tmpfile]),
          ret  |-> None, created |-> 1, renamed |-> TRUE, logged |-> FALSE]
    ELSE [self |-> self,
          fs   |-> fs1,
          ret  |-> None, created |-> 1, renamed |-> FALSE, logged |-> TRUE]

\* Variant of save_cache: a failure of mkstemp clears the flag.
save_cache_forgets(self, fs, failure, remove_ok) ==
    LET nothing == [self |-> self, fs |-> fs, ret |-> None, created |-> 0,
                    renamed |-> FALSE, logged |-> FALSE]
    IN
    IF ~ self._cache_needs_saving THEN nothing
    ELSE IF failure = "mkstemp"
    THEN [nothing EXCEPT !.logged = TRUE,
                         !.self = [self EXCEPT !._cache_needs_saving = FALSE]]
    ELSE
    LET tmpfile  == mkstemp(fs, CACHE_FILENAME, self._data_dir)
        document == json_dump(self._dynamic_configuration)
        written  == IF failure = "dump" THEN Truncated ELSE document
        fs1      == DictSet(fs, tmpfile, written)
    IN
    IF failure = "none"
    THEN [self |-> [self EXCEPT !._cache_needs_saving = FALSE],
          fs   |-> DictSet(remove(fs1, tmpfile), self._cache_file, fs1[tmpfile]),
          ret  |-> None, created |-> 1, renamed |-> TRUE, logged |-> FALSE]
    ELSE [self |-> self,
          fs   |-> IF remove_ok THEN remove(fs1, tmpfile) ELSE fs1,
          ret  |-> None, created |-> 1, renamed |-> FALSE, logged |-> TRUE]

\* Config.save_cache; failure is the step whose I/O call raises ("none" when
\* all succeed) and remove_ok tells whether os.remove of the temporary file
\* succeeds in the exception handler.  The result is the instance and the
\* files after the call, the number of temporary files created, whether
\* the rename was carried out and whether an exception was logged.
save_cache(self, fs, failure, remove_ok) ==
    LET nothing == [self |-> self, fs |-> fs, ret |-> None, created |-> 0,
                    renamed |-> FALSE, logged |-> FALSE]
    IN
    IF ~ self._cache_needs_saving THEN nothing
    ELSE IF failure = "mkstemp" THEN [nothing EXCEPT !.logged = TRUE]
    ELSE
    LET tmpfile  == mkstemp(fs, CACHE_FILENAME, self._data_dir)
        document == json_dump(self._dynamic_configuration)
        written  == IF failure = "dump" THEN Truncated ELSE document
        fs1      == DictSet(fs, tmpfile, written)
    IN
    IF failure = "none"
    THEN [self |-> [self EXCEPT !._cache_needs_saving = FALSE],
          fs   |-> DictSet(remove(fs1, tmpfile), self._cache_file, fs1[tmpfile]),
          ret  |-> None, created |-> 1, renamed |-> TRUE, logged |-> FALSE]
    ELSE [self |-> self,
          fs   |-> IF remove_ok THEN remove(fs1, tmpfile) ELSE fs1,
          ret  |-> None, created |-> 1, renamed |-> FALSE, logged |-> TRUE]

\* Variant of _load_cache: the cached mapping is applied as a snapshot of
\* index 0.
_load_cache_as_snapshot(self, fs) ==
    IF ~ Has(fs, self._cache_file) THEN self
    ELSE LET loaded == json_load(fs[self._cache_file]) IN
         IF IsExc(loaded) THEN self
         ELSE set_dynamic_configuration(self, ClusterConfig(0, loaded)).self

\* The file mkstemp has created and nothing was written to yet.
EmptyFile == [empty |-> TRUE]

\* The points of save_cache at which the process may stop.
CrashPoints == {"start", "created", "writing", "written", "renamed"}

\* Variant of save_cache_points: the document is written to the cache file
\* itself.
save_cache_points_in_place(self, fs) ==
    IF ~ self._cache_needs_saving THEN [point \in CrashPoints |-> fs]
    ELSE
    LET document == json_dump(self._dynamic_configuration)
    IN  [ start   |-> fs,
          created |-> DictSet(fs, self._cache_file, EmptyFile),
          writing |-> DictSet(fs, self._cache_file, Truncated),
          written |-> DictSet(fs, self._cache_file, document),
          renamed |-> DictSet(fs, self._cache_file, document) ]

\* The files on disk at each point of save_cache (lines 86-93): before
\* mkstemp, after mkstemp, while json.dump writes, after the file is closed,
\* after os.rename.
save_cache_points(self, fs) ==
    IF ~ self._cache_needs_saving THEN [point \in CrashPoints |-> fs]
    ELSE
    LET tmpfile  == mkstemp(fs, CACHE_FILENAME, self._data_dir)
        document == json_dump(self._dynamic_configuration)
        written  == DictSet(fs, tmpfile, document)
    IN  [ start   |-> fs,
          created |-> DictSet(fs, tmpfile, EmptyFile),
          writing |-> DictSet(fs, tmpfile, Truncated),
          written |-> written,
          renamed |-> DictSet(remove(written, tmpfile), self._cache_file, document) ]

\* Config._load_cache
_load_cache(self, fs) ==
    IF ~ Has(fs, self._cache_file) THEN self
    ELSE LET loaded == json_load(fs[self._cache_file]) IN
         IF IsExc(loaded) THEN self
         ELSE set_dynamic_configuration(self, loaded).self

\* Config.__init__: the instance, or the exception raised to the caller.
\* config_file is the path given (None with config_env), local_configuration
\* what the file or config_env loads to, fs the files found on disk.
Config(config_file, local_configuration, fs) ==
    Only({
    IF IsExc(effective) THEN effective
    ELSE IF ~ Has(effective["postgresql"], "data_dir") THEN Exc("KeyError")
    ELSE IF ~ IsStr(effective["postgresql"]["data_dir"]) THEN Exc("TypeError")
    ELSE
    LET data_dir == effective["postgresql"]["data_dir"].str
        self0 == [ _config_file            |-> config_file,
                   _modify_index           |-> -1,
                   _dynamic_configuration  |-> EmptyDict,
                   _local_configuration    |-> local_configuration,
                   effective_configuration |-> effective,
                   _data_dir               |-> data_dir,
                   _cache_file             |-> path_join(data_dir, CACHE_FILENAME),
                   _cache_needs_saving     |-> FALSE ]
    IN  [_load_cache(self0, fs) EXCEPT !._cache_needs_saving = FALSE]
    : effective \in {_build_effective_configuration(EmptyDict, local_configuration)} })

\* ------------------------------------------------------------- the inputs
Credentials(username) == [username |-> S(username), password |-> S("secret")]

\* Dynamic configurations handed over by the DCS or found in the cache.
DynEmpty == EmptyDict
\* top-level values to coerce, parameters raised and lowered
DynTuned ==
    [ ttl        |-> I(20),
      loop_wait  |-> S("3"),
      postgresql |-> [parameters |->
          [ wal_level             |-> S("logical"),
            wal_keep_segments     |-> I(20),
            max_replication_slots |-> I(3),
            max_wal_senders       |-> S("12"),
            hot_standby           |-> S("off"),
            max_connections       |-> I(3) ]] ]
\* the fields and top-level keys the DCS must not set
DynForbidden ==
    [ injected   |-> I(1),
      name       |-> S("dcs"),
      restapi    |-> [listen |-> S("0.0.0.0:1")],
      postgresql |->
        [ data_dir        |-> S("/dcs"),
          listen          |-> S("0.0.0.0:5432"),
          connect_address |-> S("10.0.0.9:5432"),
          pgpass          |-> S("/dcs/pgpass"),
          authentication  |-> [superuser |-> Credentials("dcs")],
          use_slots       |-> B(TRUE),
          parameters      |-> [wal_level |-> S("minimal")] ] ]
\* credentials in the old flat format
DynLegacy ==
    [postgresql |->
        [ replication |-> Credentials("dcs_replicator"),
          pg_rewind   |-> Credentials("dcs_rewind") ]]
DynBadTtl == [ttl |-> S("bogus")]
DynBadParameter ==
    [postgresql |-> [parameters |-> [max_wal_senders |-> S("many")]]]

\* a node name given in the postgresql section
DynNamed == [postgresql |-> [name |-> S("dcs")]]

DynamicConfigurations ==
    {DynEmpty, DynTuned, DynForbidden, DynLegacy, DynBadTtl, DynBadParameter}

\* The contents of the snapshots given to set_dynamic_configuration.
SnapshotContents == {DynEmpty, DynTuned, DynBadTtl}

ModifyIndexes == -1 .. MaxIndex

ClusterConfigs ==
    { ClusterConfig(i, d) : i \in ModifyIndexes, d \in SnapshotContents }

\* Local configurations: what config.yml (with the environment applied) or
\* config_env loads to.
LocalModern ==
    [ name       |-> S("node1"),
      scope      |-> S("batman"),
      restapi    |-> [ listen |-> S("0.0.0.0:8008"),
                       authentication |-> Credentials("admin") ],
      postgresql |-> [ data_dir        |-> S("/data"),
                       listen          |-> S("0.0.0.0:5432"),
                       connect_address |-> S("10.0.0.1:5432"),
                       authentication  |-> [ replication |-> Credentials("replicator") ] ] ]
\* the old format, with top-level and parameter overrides
LocalLegacy ==
    [ scope      |-> S("batman"),
      ttl        |-> I(5),
      restapi    |-> None,
      postgresql |-> [ name       |-> S("node1"),
                       data_dir   |-> S("/data2"),
                       superuser  |-> Credentials("postgres"),
                       parameters |-> [ max_wal_senders |-> I(3),
                                        wal_level       |-> S("minimal"),
                                        hot_standby     |-> S("off"),
                                        max_connections |-> I(20),
                                        shared_buffers  |-> S("1GB") ] ] ]
LocalNoRestapi ==
    [ scope      |-> S("batman"),
      postgresql |-> [ data_dir |-> S("/data") ] ]

\* no name, neither at the top level nor in postgresql
LocalNameless ==
    [ scope      |-> S("batman"),
      restapi    |-> [ listen |-> S("0.0.0.0:8008") ],
      postgresql |-> [ data_dir       |-> S("/data"),
                       authentication |-> [ superuser |-> Credentials("postgres") ] ] ]

LocalConfigurations == {LocalModern, LocalLegacy, LocalNoRestapi}

\* LocalLegacy with another top-level ttl: a different file that merges to
\* the same effective configuration.
LocalLegacyTtl == [LocalLegacy EXCEPT !.ttl = I(6)]

\* What _load_config_file returns or raises at a reload.
LoadedConfigurations == LocalConfigurations \cup {Exc("IOError")}

ConfigFiles == {S("patroni.yml"), None}

\* The configuration given inline (config_env) when there is no file.
ConfigEnv == LocalModern

\* The cache file found at startup: none, an unparsable one, or the dump of
\* a dynamic configuration (one that merges, one that does not).
InitialCaches ==
    {None, Truncated, json_dump(DynTuned), json_dump(DynBadTtl)}

\* A cache file that open() cannot read: the exception is raised inside the
\* try of _load_cache like the one of json.load.
Unreadable == [unreadable |-> TRUE]

InitialFiles(local_configuration, cache) ==
    IF IsNone(cache) \/ ~ Has(local_configuration["postgresql"], "data_dir")
    THEN EmptyDict
    ELSE [path \in {path_join(local_configuration["postgresql"]["data_dir"].str,
                               CACHE_FILENAME)} |-> cache]

\* The paths a cache file may have.
CachePaths ==
    { path_join(l["postgresql"]["data_dir"].str, CACHE_FILENAME) :
        l \in LocalConfigurations }

\* ------------------------------------------------------- the state machine
VARIABLES
    self,   \* the fields of the Config instance
    fs,     \* the files of the data directory: path -> document
    call,   \* the last call made on the instance, with its result
    dynamic_changed  \* history: some call has stored a dynamic configuration

vars == <<self, fs, call, dynamic_changed>>

Init ==
    \E config_file \in ConfigFiles, local \in LocalConfigurations,
       cache \in InitialCaches :
      \E files \in {InitialFiles(local, cache)} :
      \E instance \in {Config(config_file, local, files)} :
        /\ IsNone(config_file) => local = ConfigEnv
        /\ ~ IsExc(instance)
        /\ fs = files
        /\ self = instance
        /\ call = [op |-> "__init__"]
        /\ dynamic_changed = (self._dynamic_configuration # EmptyDict)

SetDynamicConfiguration(configuration) ==
    \E r \in {set_dynamic_configuration(self, configuration)} :
    /\ self' = r.self
    /\ call' = [op |-> "set_dynamic_configuration",
                versioned |-> IsClusterConfig(configuration),
                ret |-> r.ret, logged |-> r.logged]
    /\ dynamic_changed' = (dynamic_changed \/ r.ret = B(TRUE))
    /\ UNCHANGED fs

SetVersioned == \E configuration \in ClusterConfigs :
                    SetDynamicConfiguration(configuration)

SetUnversioned == \E configuration \in SnapshotContents :
                      SetDynamicConfiguration(configuration)

ReloadLocalConfiguration ==
    \E dry_run \in BOOLEAN, loaded \in LoadedConfigurations :
      \E r \in {reload_local_configuration(self, dry_run, loaded)} :
        /\ self' = r.self
        /\ call' = [op |-> "reload_local_configuration", dry_run |-> dry_run,
                    ret |-> r.ret, logged |-> r.logged]
        /\ UNCHANGED <<fs, dynamic_changed>>

\* One call of save_cache in which the I/O call named by failure raises.
SaveCacheStep(failure, remove_ok) ==
    \E r \in {save_cache(self, fs, failure, remove_ok)} :
      /\ remove_ok \/ Cardinality(TmpFiles(fs, self._data_dir)) < MaxTmpFiles
      /\ self' = r.self
      /\ fs' = r.fs
      /\ call' = [op |-> "save_cache", ret |-> r.ret, created |-> r.created,
                  renamed |-> r.renamed, logged |-> r.logged]
      /\ UNCHANGED dynamic_changed

SaveCache ==
    \E failure \in SaveFailures \cup {"none"}, remove_ok \in BOOLEAN :
        SaveCacheStep(failure, remove_ok)

Next ==
    \/ SetVersioned
    \/ SetUnversioned
    \/ ReloadLocalConfiguration
    \/ SaveCache

Spec == Init /\ [][Next]_vars

\* A call of save_cache in which every I/O call succeeds.
SaveSucceeds == SaveCacheStep("none", TRUE)

\* save_cache keeps being called and the disk eventually lets it succeed.
SpecLive == Init /\ [][Next]_vars /\ WF_vars(SaveSucceeds)

\* The process stops at a point of save_cache and is started again with the
\* same configuration file: the files are those of the point, the instance
\* is a new one constructed over them.
CrashInSaveCache ==
    \E point \in CrashPoints :
      \E files \in {save_cache_points(self, fs)[point]} :
      \E instance \in {Config(self._config_file, self._local_configuration, files)} :
        /\ Cardinality(DOMAIN files \ CachePaths) <= MaxTmpFiles
        /\ ~ IsExc(instance)
        /\ fs' = files
        /\ self' = instance
        /\ call' = [op |-> "crash", point |-> point]
        /\ dynamic_changed' = (instance._dynamic_configuration # EmptyDict)

\* The disk found at the first start holds no cache file or a complete one.
InitCrash ==
    /\ Init
    /\ Has(fs, self._cache_file) => ~ IsExc(json_load(fs[self._cache_file]))

\* The calls that reach the cache file, and the stops inside save_cache.
NextCrash ==
    \/ SetVersioned
    \/ SetUnversioned
    \/ SaveCache
    \/ CrashInSaveCache

SpecCrash == InitCrash /\ [][NextCrash]_vars

\* ------------------------------------------------------------------ claims
\* The configurations set_dynamic_configuration may be given.
VersionedSnapshots ==
    {ClusterConfig(i, d) : i \in ModifyIndexes, d \in DynamicConfigurations}

Snapshots == VersionedSnapshots \cup DynamicConfigurations

SnapshotData(c) == IF IsClusterConfig(c) THEN c.cluster_config.data ELSE c

\* C1: in every state the effective configuration read through get,
\* __getitem__ and __contains__ is _build_effective_configuration of the
\* stored dynamic and the stored local configuration.
C1_EffectiveIsMerge ==
    self.effective_configuration =
        _build_effective_configuration(self._dynamic_configuration,
                                       self._local_configuration)

\* a reload was accepted while a dynamic configuration is stored, after some
\* call has logged a failure and changed nothing
C1_Witness ==
    /\ call.op = "reload_local_configuration"
    /\ call.ret = B(TRUE)
    /\ self._dynamic_configuration = DynTuned
    /\ self._local_configuration = LocalLegacy

\* C2 (as claimed): a snapshot that is not skipped for its index, differs
\* from the stored dynamic configuration and fails to merge leaves the
\* instance as it was (dynamic configuration, modify index, dirty flag,
\* effective configuration) and does not return True.
C2_FailedSetLeavesAllState ==
    \A c \in Snapshots :
      \A r \in {set_dynamic_configuration(self, c)} :
        ( /\ ~ (IsClusterConfig(c)
                /\ c.cluster_config.modify_index = self._modify_index)
          /\ SnapshotData(c) # self._dynamic_configuration
          /\ IsExc(_build_effective_configuration(SnapshotData(c),
                                                  self._local_configuration)) )
        => r.self = self /\ r.ret # B(TRUE)

\* C3 (as claimed): whenever the stored modify index changes, it grows.
C3_IndexOnlyIncreases ==
    [][self'._modify_index # self._modify_index
          => self'._modify_index > self._modify_index]_vars

\* C3 (amended): after a call with a versioned snapshot the stored modify
\* index is the index of that snapshot, whether it is lower or higher than
\* the one stored before; a call with an unversioned one leaves it.
C3_IndexFollowsSnapshot ==
    /\ \A c \in VersionedSnapshots :
          set_dynamic_configuration(self, c).self._modify_index
              = c.cluster_config.modify_index
    /\ \A d \in DynamicConfigurations :
          set_dynamic_configuration(self, d).self._modify_index = self._modify_index

\* a versioned snapshot was taken (not skipped) and the stored index is the
\* lowest one: the index stored before the call was higher
C3_Witness ==
    /\ call.op = "set_dynamic_configuration"
    /\ call.versioned
    /\ call.ret # B(FALSE)
    /\ self._modify_index = -1

\* C4: a versioned snapshot with the stored modify index changes nothing
\* and returns False, whatever its content; applying any versioned snapshot
\* a second time is such a call.
C4_SameIndexIsNoOp ==
    \A c \in VersionedSnapshots :
      \A r \in {set_dynamic_configuration(self, c)} :
        /\ c.cluster_config.modify_index = self._modify_index
              => r = [self |-> self, ret |-> B(FALSE), logged |-> FALSE]
        /\ set_dynamic_configuration(r.self, c)
              = [self |-> r.self, ret |-> B(FALSE), logged |-> FALSE]

\* a versioned snapshot was skipped while the cache was waiting to be saved
C4_Witness ==
    /\ call.op = "set_dynamic_configuration"
    /\ call.versioned
    /\ call.ret = B(FALSE)
    /\ self._cache_needs_saving
    /\ self._modify_index = 0

\* C5: a versioned snapshot with another index and the stored content sets
\* the stored modify index and nothing else, and does not return True.
C5_SameContentUpdatesIndexOnly ==
    \A c \in VersionedSnapshots :
      \A r \in {set_dynamic_configuration(self, c)} :
        ( /\ c.cluster_config.modify_index # self._modify_index
          /\ deep_compare(self._dynamic_configuration, c.cluster_config.data) )
        => /\ r.self = [self EXCEPT !._modify_index = c.cluster_config.modify_index]
           /\ r.ret # B(TRUE)

\* such a snapshot was applied: nothing returned, nothing logged, the flag
\* still clear although a dynamic configuration is stored
C5_Witness ==
    /\ call.op = "set_dynamic_configuration"
    /\ call.versioned
    /\ call.ret = None
    /\ ~ call.logged
    /\ ~ self._cache_needs_saving
    /\ self._dynamic_configuration = DynTuned
    /\ self._modify_index = 0

\* The rules of the sanitizer, for the parameters of an effective
\* configuration.
Sanitized(parameters) ==
    /\ parameters["wal_level"] \in {S("hot_standby"), S("logical")}
    /\ \A name \in CapacityParameters :
          /\ ~ int_raises(parameters[name])
          /\ int(parameters[name]) >= CMDLINE_OPTIONS[name].int

\* C6: the parameters of the effective configuration satisfy the rules of
\* the sanitizer in every state, and so do those of every merge of a dynamic
\* and a local configuration that succeeds.
C6_EffectiveParametersSanitized ==
    /\ Sanitized(self.effective_configuration["postgresql"]["parameters"])
    /\ \A d \in DynamicConfigurations, l \in LocalConfigurations :
          \A effective \in {_build_effective_configuration(d, l)} :
              ~ IsExc(effective) => Sanitized(effective["postgresql"]["parameters"])

\* both layers propose lower values and the effective ones are the defaults
\* or the higher values proposed
C6_Witness ==
    /\ self._dynamic_configuration = DynTuned
    /\ self._local_configuration = LocalLegacy
    /\ self.effective_configuration["postgresql"]["parameters"]["max_replication_slots"] = I(10)
    /\ self.effective_configuration["postgresql"]["parameters"]["max_wal_senders"] = S("12")
    /\ self.effective_configuration["postgresql"]["parameters"]["wal_level"] = S("logical")

Absent == [absent |-> TRUE]

\* C7 (as claimed): with the stored local configuration, any two dynamic
\* configurations that merge give the same postgresql.connect_address,
\* listen, data_dir, pgpass and authentication.
C7_ForbiddenFieldsIgnoreDynamic ==
    \A d1 \in DynamicConfigurations, d2 \in DynamicConfigurations :
      \A e1 \in {_build_effective_configuration(d1, self._local_configuration)} :
      \A e2 \in {_build_effective_configuration(d2, self._local_configuration)} :
        (~ IsExc(e1) /\ ~ IsExc(e2))
        => \A field \in DynamicForbidden :
              Get(e1["postgresql"], field, Absent) = Get(e2["postgresql"], field, Absent)

\* The cache file holds the stored dynamic configuration.
CacheIsCurrent(instance, files) ==
    /\ Has(files, instance._cache_file)
    /\ json_load(files[instance._cache_file]) = instance._dynamic_configuration

\* C8: when the flag is clear, the cache file holds the stored dynamic
\* configuration or no dynamic configuration was ever stored; a call that
\* stores another dynamic configuration leaves the flag set, a reload does
\* not touch it, and save_cache clears it only with the rename done and the
\* file holding the stored dynamic configuration.
C8_CleanFlagMeansSaved ==
    /\ ~ self._cache_needs_saving => (CacheIsCurrent(self, fs) \/ ~ dynamic_changed)
    /\ \A c \in Snapshots :
        \A r \in {set_dynamic_configuration(self, c)} :
          /\ r.self._dynamic_configuration # self._dynamic_configuration
                => r.self._cache_needs_saving
          /\ self._cache_needs_saving => r.self._cache_needs_saving
    /\ \A dry_run \in BOOLEAN, loaded \in LoadedConfigurations :
          reload_local_configuration(self, dry_run, loaded).self._cache_needs_saving
              = self._cache_needs_saving
    /\ \A failure \in SaveFailures \cup {"none"}, remove_ok \in BOOLEAN :
        \A r \in {save_cache(self, fs, failure, remove_ok)} :
          (self._cache_needs_saving /\ ~ r.self._cache_needs_saving)
          => r.renamed /\ CacheIsCurrent(r.self, r.fs)

\* a stored dynamic configuration was written and the flag is clear
C8_Witness ==
    /\ call.op = "save_cache"
    /\ call.renamed
    /\ ~ self._cache_needs_saving
    /\ dynamic_changed
    /\ self._dynamic_configuration = DynEmpty
    /\ fs[self._cache_file] = json_dump(DynEmpty)

\* C9: save_cache with the flag clear creates no temporary file and leaves
\* every file; a save that succeeds makes one temporary file and one rename
\* and a save_cache right after it, whatever the disk does, makes none.
C9_SaveOnlyWhenDirty ==
    /\ ~ self._cache_needs_saving =>
          \A failure \in SaveFailures \cup {"none"}, remove_ok \in BOOLEAN :
            \A r \in {save_cache(self, fs, failure, remove_ok)} :
              r.created = 0 /\ ~ r.renamed /\ r.fs = fs /\ r.self = self
    /\ self._cache_needs_saving =>
          \A first \in {save_cache(self, fs, "none", TRUE)} :
            /\ first.created = 1 /\ first.renamed
            /\ \A failure \in SaveFailures \cup {"none"}, remove_ok \in BOOLEAN :
                \A second \in {save_cache(first.self, first.fs, failure, remove_ok)} :
                  second.created = 0 /\ ~ second.renamed /\ second.fs = first.fs

\* save_cache was called with the flag clear, after an earlier one had
\* written the stored dynamic configuration
C9_Witness ==
    /\ call.op = "save_cache"
    /\ call.created = 0
    /\ ~ call.renamed
    /\ ~ call.logged
    /\ ~ self._cache_needs_saving
    /\ dynamic_changed
    /\ CacheIsCurrent(self, fs)
    /\ self._modify_index = 0

\* What C10 says of a failed save_cache but for the temporary file: nothing
\* raised, the instance (flag, dynamic and effective configuration) and the
\* cache file as before.
FailedSaveKeepsState(r) ==
    /\ ~ IsExc(r.ret)
    /\ r.logged
    /\ r.self = self
    /\ Has(r.fs, self._cache_file) = Has(fs, self._cache_file)
    /\ Has(fs, self._cache_file) => r.fs[self._cache_file] = fs[self._cache_file]

\* C10 (as claimed): a save_cache that fails at mkstemp, at the dump or at
\* the rename keeps the state and leaves no temporary file.
C10_FailedSaveRemovesTmp ==
    self._cache_needs_saving =>
      \A failure \in SaveFailures, remove_ok \in BOOLEAN :
        \A r \in {save_cache(self, fs, failure, remove_ok)} :
          FailedSaveKeepsState(r) /\ r.fs = fs

\* C10 (amended): such a save_cache keeps the state; the temporary file is
\* removed when os.remove succeeds and stays, with what was written to it,
\* when os.remove fails; a later save_cache writes the cache.
C10_FailedSaveBestEffort ==
    self._cache_needs_saving =>
      \A failure \in SaveFailures, remove_ok \in BOOLEAN :
        \A r \in {save_cache(self, fs, failure, remove_ok)} :
          /\ FailedSaveKeepsState(r)
          /\ (remove_ok \/ failure = "mkstemp") => r.fs = fs
          /\ (~ remove_ok /\ failure # "mkstemp") =>
                /\ Cardinality(DOMAIN r.fs) = Cardinality(DOMAIN fs) + 1
                /\ \A path \in DOMAIN fs : r.fs[path] = fs[path]
          /\ \A again \in {save_cache(r.self, r.fs, "none", TRUE)} :
                /\ again.created = 1 /\ again.renamed
                /\ ~ again.self._cache_needs_saving
                /\ CacheIsCurrent(again.self, again.fs)

\* a save_cache failed after it had created the temporary file, and removed
\* it: the flag is still set and the cache file is not current
C10_Witness ==
    /\ call.op = "save_cache"
    /\ call.logged
    /\ call.created = 1
    /\ self._cache_needs_saving
    /\ TmpFiles(fs, self._data_dir) = {}
    /\ ~ CacheIsCurrent(self, fs)

\* The candidates a reload is examined with.
CandidateConfigurations == LoadedConfigurations \cup {LocalLegacyTtl}

\* What the merge of the stored dynamic configuration with the candidate
\* gives, or the exception of the read.
Candidate(loaded) ==
    IF IsExc(loaded) THEN loaded
    ELSE _build_effective_configuration(self._dynamic_configuration, loaded)

\* C13: reload_local_configuration(dry_run=True) leaves the instance as it
\* is in every outcome; with a candidate equal to the stored local
\* configuration (or without a file) it returns None, when the merge
\* succeeds it returns whether the candidate effective configuration differs
\* from the current one, and when the read or the merge fails the exception
\* reaches the caller.
C13_DryRunReloadKeepsState ==
    \A loaded \in CandidateConfigurations :
      \A r \in {reload_local_configuration(self, TRUE, loaded)} :
      \A candidate \in {Candidate(loaded)} :
        /\ r.self = self
        /\ IF ~ Truthy(self._config_file) \/ loaded = self._local_configuration
           THEN r.ret = None
           ELSE IF IsExc(candidate) THEN r.ret = candidate
           ELSE r.ret = B(candidate # self.effective_configuration)

\* a dry run found a candidate that merges to another effective
\* configuration, and the stored one is still the merge of the stored layers
C13_Witness ==
    /\ call.op = "reload_local_configuration"
    /\ call.dry_run
    /\ call.ret = B(TRUE)
    /\ self._local_configuration = LocalLegacy
    /\ self._dynamic_configuration = DynTuned

\* C14: reload_local_configuration(dry_run=False) never raises; when the
\* read or the merge fails, or the candidate equals the stored local
\* configuration, the instance is as before and the call does not return
\* True; when the merge of a different candidate succeeds, the stored local
\* and the effective configuration are replaced together, nothing else
\* changes, and the call returns True.
C14_ReloadIsFailStatic ==
    \A loaded \in CandidateConfigurations :
      \A r \in {reload_local_configuration(self, FALSE, loaded)} :
      \A candidate \in {Candidate(loaded)} :
        /\ ~ IsExc(r.ret)
        /\ IF \/ ~ Truthy(self._config_file)
              \/ loaded = self._local_configuration
              \/ IsExc(candidate)
           THEN r.self = self /\ r.ret # B(TRUE)
           ELSE /\ r.ret = B(TRUE)
                /\ r.self = [self EXCEPT !._local_configuration = loaded,
                                         !.effective_configuration = candidate]

\* a reload failed and was logged, nothing was raised
C14_Witness ==
    /\ call.op = "reload_local_configuration"
    /\ ~ call.dry_run
    /\ call.logged
    /\ call.ret = None
    /\ self._local_configuration = LocalLegacy

\* The cache files of which the load fails: none, one that cannot be opened,
\* one that is not JSON, JSON that is not a mapping, mappings that do not
\* merge.
FailingCaches ==
    { None, Unreadable, Truncated, json_dump(I(5)),
      json_dump(DynBadTtl), json_dump(DynBadParameter) }

\* C15: whatever cache file of FailingCaches is found, the construction
\* completes whenever the local configuration alone merges and has a
\* data_dir, and the instance has an empty dynamic configuration, the merge
\* of the empty dynamic and the local configuration as effective
\* configuration, modify index -1 and a clear flag.
C15_FailedCacheLoadIsIgnored ==
    \A config_file \in ConfigFiles, cache \in FailingCaches,
       local \in LocalConfigurations \cup {self._local_configuration} :
      \A base \in {_build_effective_configuration(EmptyDict, local)} :
        (~ IsExc(base) /\ Has(base["postgresql"], "data_dir")) =>
          \A instance \in {Config(config_file, local, InitialFiles(local, cache))} :
            /\ ~ IsExc(instance)
            /\ instance._dynamic_configuration = EmptyDict
            /\ instance.effective_configuration = base
            /\ instance._modify_index = -1
            /\ ~ instance._cache_needs_saving

\* an instance constructed over a cache file that does not merge
C15_Witness ==
    /\ call.op = "__init__"
    /\ Has(fs, self._cache_file)
    /\ fs[self._cache_file] = json_dump(DynBadTtl)
    /\ self._dynamic_configuration = EmptyDict
    /\ self._modify_index = -1
    /\ ~ self._cache_needs_saving

\* Values proposed for a parameter.
ParameterValues == {S("on"), S("off"), I(0), B(FALSE), None}

\* Parameters proposed next to the one examined.
OtherParameters ==
    { EmptyDict, DynTuned["postgresql"]["parameters"],
      LocalLegacy["postgresql"]["parameters"] }

\* C16: _process_postgresql_parameters returns neither hot_standby nor
\* wal_log_hints, for every value and for both layers, and their effective
\* values are the defaults in every state and in every merge that succeeds.
C16_HotStandbyAlwaysDropped ==
    /\ \A name \in {"hot_standby", "wal_log_hints"}, value \in ParameterValues,
          others \in OtherParameters, is_local \in BOOLEAN :
          \A kept \in {_process_postgresql_parameters(
                            DictSet(others, name, value), is_local)} :
            ~ IsExc(kept) /\ ~ Has(kept, name)
    /\ \A name \in {"hot_standby", "wal_log_hints"} :
          /\ self.effective_configuration["postgresql"]["parameters"][name]
                = CMDLINE_OPTIONS[name]
          /\ \A d \in DynamicConfigurations, l \in LocalConfigurations :
               \A effective \in {_build_effective_configuration(d, l)} :
                 ~ IsExc(effective) =>
                   effective["postgresql"]["parameters"][name] = CMDLINE_OPTIONS[name]

\* both layers propose hot_standby = off and the effective value is on
C16_Witness ==
    /\ call.op = "set_dynamic_configuration"
    /\ call.ret = B(TRUE)
    /\ self._dynamic_configuration = DynTuned
    /\ self._local_configuration = LocalLegacy
    /\ self._dynamic_configuration["postgresql"]["parameters"]["hot_standby"] = S("off")
    /\ self._local_configuration["postgresql"]["parameters"]["hot_standby"] = S("off")
    /\ self.effective_configuration["postgresql"]["parameters"]["hot_standby"] = S("on")
    /\ self.effective_configuration["postgresql"]["parameters"]["wal_log_hints"] = S("on")

\* C17 (as claimed): for a fixed local configuration, every top-level key
\* of the effective configuration that is not a key of the defaults has the
\* same value, or is absent, whatever the dynamic configuration is.
C17_NoTopLevelKeyFromDynamic ==
    \A l \in LocalConfigurations \cup {LocalNameless, self._local_configuration} :
    \A d1 \in DynamicConfigurations \cup {DynNamed},
       d2 \in DynamicConfigurations \cup {DynNamed} :
      \A e1 \in {_build_effective_configuration(d1, l)} :
      \A e2 \in {_build_effective_configuration(d2, l)} :
        (~ IsExc(e1) /\ ~ IsExc(e2)) =>
          \A key \in (DOMAIN e1 \cup DOMAIN e2) \ DOMAIN DEFAULT_CONFIG :
              Get(e1, key, Absent) = Get(e2, key, Absent)

\* The top-level scalar keys of the defaults.
ScalarDefaults == DOMAIN DEFAULT_CONFIG \ {"postgresql"}

\* What C18 says of the merge of d and l.
LocalKeepsTopLevel(d, l, effective) ==
    /\ \A key \in ScalarDefaults :
          effective[key] = IF Has(d, key) THEN I(int(d[key]))
                           ELSE DEFAULT_CONFIG[key]
    /\ \A key \in DOMAIN l \ (DOMAIN DEFAULT_CONFIG \cup {"restapi"}) :
          effective[key] = OrEmpty(l[key])

\* C18: in every state and in every merge that succeeds, each of ttl,
\* loop_wait, retry_timeout and maximum_lag_on_failover has the value of the
\* dynamic configuration coerced to an integer when it sets the key and the
\* default otherwise, whatever the local configuration gives; the other
\* top-level keys of the local configuration are added.
C18_LocalNeverOverridesTopLevel ==
    /\ LocalKeepsTopLevel(self._dynamic_configuration, self._local_configuration,
                          self.effective_configuration)
    /\ \A d \in DynamicConfigurations,
          l \in LocalConfigurations \cup {LocalLegacyTtl, LocalNameless} :
          \A effective \in {_build_effective_configuration(d, l)} :
            ~ IsExc(effective) => LocalKeepsTopLevel(d, l, effective)

\* the local configuration gives ttl = 5, the dynamic one ttl = 20 and
\* loop_wait = "3"
C18_Witness ==
    /\ self._local_configuration = LocalLegacy
    /\ self._dynamic_configuration = DynTuned
    /\ self._local_configuration["ttl"] = I(5)
    /\ self.effective_configuration["ttl"] = I(20)
    /\ self.effective_configuration["loop_wait"] = I(3)
    /\ self.effective_configuration["retry_timeout"] = I(10)

\* C19 (as claimed): the directory of the temporary files and the path of
\* the cache file are those of postgresql.data_dir of the effective
\* configuration.
C19_CacheFileFollowsDataDir ==
    /\ self._data_dir = self.effective_configuration["postgresql"]["data_dir"].str
    /\ self._cache_file = path_join(
           self.effective_configuration["postgresql"]["data_dir"].str, CACHE_FILENAME)

\* C11: with a disk that held no cache file or a complete one at the first
\* start, the file at a cache path is absent or a complete document in every
\* state, the ones left by a process stopped inside save_cache included; at
\* each point of save_cache the cache file is as before the call or holds
\* the dump of the stored dynamic configuration, and the points are the
\* files the failures of save_cache leave.
C11_CacheFileIsCrashAtomic ==
    /\ \A path \in CachePaths \cap DOMAIN fs : ~ IsExc(json_load(fs[path]))
    /\ \A points \in {save_cache_points(self, fs)} :
        /\ \A point \in CrashPoints :
            \A path \in CachePaths :
              IF Has(points[point], path)
              THEN \/ Has(fs, path) /\ points[point][path] = fs[path]
                   \/ /\ path = self._cache_file
                      /\ points[point][path] = json_dump(self._dynamic_configuration)
              ELSE ~ Has(fs, path)
        /\ self._cache_needs_saving =>
              /\ points["writing"] = save_cache(self, fs, "dump", FALSE).fs
              /\ points["written"] = save_cache(self, fs, "rename", FALSE).fs
              /\ points["renamed"] = save_cache(self, fs, "none", TRUE).fs

\* the process stopped while json.dump was writing: the temporary file is
\* partial, the cache file is the one of the save before and the new
\* instance has loaded it
C11_Witness ==
    /\ call.op = "crash"
    /\ call.point = "writing"
    /\ \E path \in TmpFiles(fs, self._data_dir) : fs[path] = Truncated
    /\ Has(fs, self._cache_file)
    /\ self._dynamic_configuration = json_load(fs[self._cache_file])
    /\ self._dynamic_configuration = DynTuned

\* C12 (as claimed): after save_cache has succeeded, an instance constructed
\* with the same configuration file and local configuration over the files
\* left has the stored dynamic configuration and the effective configuration
\* of the first instance, and a clear flag.
C12_CacheRoundTrip ==
    self._cache_needs_saving =>
      \A r \in {save_cache(self, fs, "none", TRUE)} :
      \A fresh \in {Config(self._config_file, self._local_configuration, r.fs)} :
        /\ ~ IsExc(fresh)
        /\ fresh._dynamic_configuration = self._dynamic_configuration
        /\ fresh.effective_configuration = self.effective_configuration
        /\ ~ fresh._cache_needs_saving

\* C20: when save_cache keeps being called and eventually succeeds, a set
\* flag leads to a state with the flag clear and the cache file holding the
\* stored dynamic configuration; the flag is cleared by nothing but a
\* save_cache that has renamed the file; and once saved, the cache stays
\* saved until a call of set_dynamic_configuration.
C20_ChangeEventuallySaved ==
    /\ self._cache_needs_saving
          ~> (~ self._cache_needs_saving /\ CacheIsCurrent(self, fs))
    /\ [][ (self._cache_needs_saving /\ ~ self._cache_needs_saving')
             => (call'.op = "save_cache" /\ call'.renamed) ]_vars
    /\ [][ ( /\ ~ self._cache_needs_saving /\ CacheIsCurrent(self, fs)
             /\ call'.op # "set_dynamic_configuration" )
             => (~ self._cache_needs_saving' /\ CacheIsCurrent(self', fs')) ]_vars

\* a save_cache failed and left its temporary file, a later one has written
\* the cache
C20_Witness ==
    /\ call.op = "save_cache"
    /\ call.renamed
    /\ TmpFiles(fs, self._data_dir) # {}
    /\ ~ self._cache_needs_saving
    /\ CacheIsCurrent(self, fs)
    /\ self._dynamic_configuration = DynTuned

====
